---- MODULE Spec2Model ----
(***************************************************************************)
(* A model of backtest_crush_spread (src/get_data.py, lines 110-265): the  *)
(* statistical validation, the rolling z-score signal, the held position,  *)
(* the PnL and cost columns and the performance figures.                   *)
(*                                                                         *)
(* Sequences are 1-based: index i of the source is index i+1 here.         *)
(* A float that may be NaN is a record [def, v]; the rolling mean is the   *)
(* exact fraction num/den; the rolling std is kept as its square           *)
(* sq_num/sq_den, and the z-score as its sign and its square, so that the  *)
(* comparisons of the source are decided exactly on integer inputs.        *)
(***************************************************************************)
EXTENDS Integers, Sequences, FiniteSets, TLC

VARIABLES df, lookback, entry_z, cost_per_trade, pc, exc, adf, hurst, data, summary

vars == <<df, lookback, entry_z, cost_per_trade, pc, exc, adf, hurst, data, summary>>

(* ------------------------------ bounds --------------------------------- *)

MaxLen == 5

SpreadValues == {0, 1, 2}

(* The arguments of a call: every combination of admissible values, and
   each precondition on an argument broken in turn. *)
Lookbacks == {2, 3, MaxLen}

EntryZs == {[num |-> 1, den |-> 2], [num |-> 1, den |-> 1]}

Costs == {0, 1}

Arguments ==
    (Lookbacks \X EntryZs \X Costs)
        \cup {<<1, [num |-> 1, den |-> 2], 1>>,
              <<2, [num |-> 0, den |-> 1], 1>>,
              <<2, [num |-> 1, den |-> 2], -1>>}

(* ----------------------- floats that may be NaN ------------------------ *)

Num(x) == [def |-> TRUE, v |-> x]

NaN == [def |-> FALSE, v |-> 0]

Mul(a, b) == IF a.def /\ b.def THEN Num(a.v * b.v) ELSE NaN

Sub(a, b) == IF a.def /\ b.def THEN Num(a.v - b.v) ELSE NaN

Add(a, b) == IF a.def /\ b.def THEN Num(a.v + b.v) ELSE NaN

Abs(a) == IF a.def /\ a.v < 0 THEN Num(-a.v) ELSE a

Sign(x) == IF x > 0 THEN 1 ELSE IF x < 0 THEN -1 ELSE 0

(* Series.shift(1): the value of the previous row, NaN on the first row. *)
Shift(col) == [i \in 1..Len(col) |-> IF i = 1 THEN NaN ELSE col[i-1]]

(* Series.diff(): col - col.shift(1). *)
Diff(col) == [i \in 1..Len(col) |-> Sub(col[i], Shift(col)[i])]

Defined(col, i) == {j \in 1..i : col[j].def}

RECURSIVE SumOver(_, _)
SumOver(col, S) ==
    IF S = {} THEN 0
    ELSE LET j == CHOOSE k \in S : TRUE IN col[j].v + SumOver(col, S \ {j})

MaxOver(col, S) == CHOOSE m \in {col[j].v : j \in S} : \A j \in S : col[j].v <= m

MinOver(col, S) == CHOOSE m \in {col[j].v : j \in S} : \A j \in S : m <= col[j].v

(* A cumulative sum that does not skip NaN: NaN from the first NaN row on. *)
CumSumNoSkip(col) ==
    [i \in 1..Len(col) |->
        IF Defined(col, i) = 1..i THEN Num(SumOver(col, 1..i)) ELSE NaN]

(* Series.cumsum(): NaN rows are skipped and stay NaN. *)
CumSum(col) ==
    [i \in 1..Len(col) |-> IF col[i].def THEN Num(SumOver(col, Defined(col, i))) ELSE NaN]

(* Series.cummax(): NaN rows are skipped and stay NaN. *)
CumMax(col) ==
    [i \in 1..Len(col) |-> IF col[i].def THEN Num(MaxOver(col, Defined(col, i))) ELSE NaN]

(* Series.sum(): NaN rows are skipped; 0 when nothing is left. *)
SumSkipNa(col) == SumOver(col, Defined(col, Len(col)))

(* Series.min(): NaN rows are skipped; NaN when nothing is left. *)
MinSkipNa(col) ==
    IF Defined(col, Len(col)) = {} THEN NaN ELSE Num(MinOver(col, Defined(col, Len(col))))

(* --------------------------- the input --------------------------------- *)

(* The frames the caller may pass: n rows, dates 1..n in ascending or in
   descending row order, spreads without NaN. *)
InputFrames ==
    UNION {
        { [i \in 1..n |-> [Date |-> IF asc THEN i ELSE n + 1 - i, Spread |-> vals[i]]]
            : vals \in [1..n -> SpreadValues], asc \in BOOLEAN }
        : n \in 0..MaxLen }

(* data = df.copy().set_index('Date'); data.sort_index(inplace=True) *)
SortIndex(frame) ==
    LET n == Len(frame)
        rank(i) == Cardinality({j \in 1..n : frame[j].Date < frame[i].Date}) + 1
        row(k) == CHOOSE i \in 1..n : rank(i) = k
    IN  [Date   |-> [k \in 1..n |-> frame[row(k)].Date],
         Spread |-> [k \in 1..n |-> frame[row(k)].Spread]]

(* ------------------------ statistical validation ----------------------- *)

(* adfuller(x) with its defaults (regression 'c', autolag 'AIC'): the lag
   bound is min(nobs // 2 - ntrend - 1, ...) with ntrend = 1, and a negative
   bound raises ValueError (an empty x raises ValueError as well). *)
AdfullerTooShort(x) == Len(x) \div 2 - 1 - 1 < 0

(* adfuller refuses a constant x in the releases that test for it. *)
IsConstant(x) == \A i, j \in 1..Len(x) : x[i] = x[j]

(* calculate_hurst: tau[lag] = sqrt(std(series[lag:] - series[:-lag])) for
   lag in range(2, 100): NaN on an empty slice, 0 when the differences are
   all equal, positive otherwise. *)
HurstLags == 2..99

Tau(series, lag) ==
    LET m == Len(series) - lag
    IN  IF m <= 0 THEN "nan"
        ELSE IF \A i, j \in 1..m :
                   series[i + lag] - series[i] = series[j + lag] - series[j]
             THEN "zero"
             ELSE "positive"

(* np.polyfit(np.log(lags), np.log(tau), 1): the slope is finite only when
   every log(tau) is; log(0) = -inf and log(nan) = nan raise no exception. *)
HurstFinite(series) == \A lag \in HurstLags : Tau(series, lag) = "positive"

(* A NaN among the log(tau) makes the fitted slope NaN, and NaN < 0.5 is
   False; otherwise the exponent may fall on either side of 0.5. *)
HurstBelowHalf(series) ==
    IF \E lag \in HurstLags : Tau(series, lag) = "nan" THEN {FALSE} ELSE BOOLEAN

(* -------------------------- signal generation -------------------------- *)

NaNFrac == [def |-> FALSE, num |-> 0, den |-> 1]

NaNSq == [def |-> FALSE, sq_num |-> 0, sq_den |-> 1]

NaNZ == [def |-> FALSE, sgn |-> 0, sq_num |-> 0, sq_den |-> 1]

(* The sum of the rows of a window, which starts no earlier than row 1. *)
RECURSIVE WindowSum(_, _, _)
WindowSum(x, from, to) ==
    IF from > to \/ to < 1 THEN 0 ELSE x[to] + WindowSum(x, from, to - 1)

Squares(x) == [i \in 1..Len(x) |-> x[i] * x[i]]

(* A window that is used as soon as one row is available (min_periods = 1). *)
HasWindowPartial(i, w) == i >= 1

(* rolling(window=w) has min_periods = w: a row has a window once w rows
   are available. *)
HasWindow(i, w) == i >= w

(* rolling(window=w).mean() *)
RollingMean(x, w) ==
    [i \in 1..Len(x) |->
        IF HasWindow(i, w)
        THEN [def |-> TRUE, num |-> WindowSum(x, i - w + 1, i), den |-> w]
        ELSE NaNFrac]

(* rolling(window=w).std(): the sample deviation (ddof = 1), NaN for a
   window of one row; std^2 = (w*sum(x^2) - sum(x)^2) / (w*(w-1)). *)
RollingStd(x, w) ==
    [i \in 1..Len(x) |->
        IF HasWindow(i, w) /\ w - 1 > 0
        THEN LET s == WindowSum(x, i - w + 1, i)
                 q == WindowSum(Squares(x), i - w + 1, i)
             IN  [def |-> TRUE, sq_num |-> w * q - s * s, sq_den |-> w * (w - 1)]
        ELSE NaNSq]

(* (x - mean) / std: NaN when either is NaN and for 0/0; a non-zero
   numerator over a zero std is an infinity (sq_den = 0). *)
ZScoreAt(x, m, s) ==
    IF ~m.def \/ ~s.def THEN NaNZ
    ELSE LET d == x * m.den - m.num
         IN  IF s.sq_num = 0 /\ d = 0 THEN NaNZ
             ELSE [def |-> TRUE, sgn |-> Sign(d),
                   sq_num |-> d * d * s.sq_den,
                   sq_den |-> m.den * m.den * s.sq_num]

ZScore(x, mean, std) == [i \in 1..Len(x) |-> ZScoreAt(x[i], mean[i], std[i])]

(* z^2 > e^2 and z^2 < e^2 for the fraction e. *)
SqAbove(z, e) == z.sq_num * e.den * e.den > e.num * e.num * z.sq_den

SqBelow(z, e) == z.sq_num * e.den * e.den < e.num * e.num * z.sq_den

(* z > e; a comparison with NaN is False. *)
Greater(z, e) ==
    z.def /\ IF e.num >= 0 THEN z.sgn > 0 /\ SqAbove(z, e)
                           ELSE z.sgn >= 0 \/ SqBelow(z, e)

(* z < -e *)
LessNeg(z, e) ==
    z.def /\ IF e.num >= 0 THEN z.sgn < 0 /\ SqAbove(z, e)
                           ELSE z.sgn <= 0 \/ SqBelow(z, e)

(* np.sign(z_score) *)
ZSign(z) == [i \in 1..Len(z) |-> IF z[i].def THEN Num(z[i].sgn) ELSE NaN]

(* A crossing test that fires on any change of sign, zero included. *)
CrossZeroOnChange(z) ==
    [i \in 1..Len(z) |->
        /\ i > 1
        /\ z[i].def
        /\ z[i-1].def
        /\ z[i].sgn # z[i-1].sgn]

(* (z_sign * z_sign.shift(1)) < 0 *)
CrossZero(z) ==
    LET p == [i \in 1..Len(z) |-> Mul(ZSign(z)[i], Shift(ZSign(z))[i])]
    IN  [i \in 1..Len(z) |-> p[i].def /\ p[i].v < 0]

(* data.loc[mask, 'signal'] = value *)
Assign(col, mask, value) ==
    [i \in 1..Len(col) |-> IF mask[i] THEN Num(value) ELSE col[i]]

(* The signal column with the exits assigned before the entries. *)
SignalEntriesLast(z, e) ==
    LET blank  == [i \in 1..Len(z) |-> NaN]
        exit   == Assign(blank, CrossZero(z), 0)
        short  == Assign(exit, [i \in 1..Len(z) |-> Greater(z[i], e)], -1)
    IN  Assign(short, [i \in 1..Len(z) |-> LessNeg(z[i], e)], 1)

(* The signal column: NaN, then the short entries, the long entries and
   last the exits, each assignment overwriting the ones before it. *)
Signal(z, e) ==
    LET blank  == [i \in 1..Len(z) |-> NaN]
        short  == Assign(blank, [i \in 1..Len(z) |-> Greater(z[i], e)], -1)
        long   == Assign(short, [i \in 1..Len(z) |-> LessNeg(z[i], e)], 1)
    IN  Assign(long, CrossZero(z), 0)

(* A backward fill: the next defined value of the column. *)
RECURSIVE BFillAt(_, _)
BFillAt(col, i) ==
    IF i > Len(col) THEN NaN
    ELSE IF col[i].def THEN col[i] ELSE BFillAt(col, i + 1)

BFill(col) == [i \in 1..Len(col) |-> BFillAt(col, i)]

(* Series.ffill() *)
RECURSIVE FFillAt(_, _)
FFillAt(col, i) ==
    IF i = 0 THEN NaN
    ELSE IF col[i].def THEN col[i] ELSE FFillAt(col, i - 1)

FFill(col) == [i \in 1..Len(col) |-> FFillAt(col, i)]

(* Series.fillna(0) *)
FillNa0(col) == [i \in 1..Len(col) |-> IF col[i].def THEN col[i] ELSE Num(0)]

(* A position that is not held: the signal of the row or 0. *)
PositionNoHold(signal) == FillNa0(signal)

Position(signal) == FillNa0(FFill(signal))

(* Lines 166-192 on the spread column x. *)
SignalColumns(x, w, e) ==
    LET mean == RollingMean(x, w)
        std  == RollingStd(x, w)
        z    == ZScore(x, mean, std)
        sig  == Signal(z, e)
    IN  [mean |-> mean, std |-> std, z_score |-> z, signal |-> sig,
         position |-> Position(sig)]

(* ----------------------------- PnL and costs --------------------------- *)

AsFloats(x) == [i \in 1..Len(x) |-> Num(x[i])]

PriceChange(x) == Diff(AsFloats(x))

(* A gross PnL that uses the position of the same row. *)
GrossPnlSameDay(position, price_change) ==
    [i \in 1..Len(position) |-> Mul(position[i], price_change[i])]

(* position.shift(1) * price_change *)
GrossPnl(position, price_change) ==
    [i \in 1..Len(position) |-> Mul(Shift(position)[i], price_change[i])]

(* The change of position without abs(). *)
TradesSigned(position) == Diff(position)

(* position.diff().abs() *)
Trades(position) == [i \in 1..Len(position) |-> Abs(Diff(position)[i])]

TradeCosts(trades, cost) == [i \in 1..Len(trades) |-> Mul(trades[i], Num(cost))]

NetPnl(gross, costs) == [i \in 1..Len(gross) |-> Sub(gross[i], costs[i])]

(* Lines 199-214. *)
PnlColumns(x, position, cost) ==
    LET pch   == PriceChange(x)
        gross == GrossPnl(position, pch)
        tr    == Trades(position)
        cs    == TradeCosts(tr, cost)
        net   == NetPnl(gross, cs)
    IN  [price_change |-> pch, gross_pnl |-> gross, trades |-> tr, costs |-> cs,
         net_pnl |-> net, cumulative_pnl |-> CumSum(net)]

(* ------------------------- performance figures ------------------------- *)

Last(col) == col[Len(col)]

MaxDrawdown(cum) ==
    LET rolling_max == CumMax(cum)
        drawdown == [i \in 1..Len(cum) |-> Sub(cum[i], rolling_max[i])]
    IN  MinSkipNa(drawdown)

(* (daily_mean / daily_std) * sqrt(252) if daily_std != 0 else 0, kept as
   its class: mean() is NaN without a defined row, std() is NaN with fewer
   than two, and NaN != 0 is True. *)
Sharpe(net) ==
    LET D == Defined(net, Len(net))
        n == Cardinality(D)
        s == SumOver(net, D)
        q == SumOver([i \in 1..Len(net) |-> Num(net[i].v * net[i].v)], D)
    IN  IF n < 2 THEN "nan"
        ELSE IF n * q - s * s = 0 THEN "zero"
        ELSE IF s > 0 THEN "positive" ELSE IF s < 0 THEN "negative" ELSE "zero"

(* Lines 221-238. *)
Summary(frame) ==
    [total_return |-> Last(frame.cumulative_pnl),
     sharpe       |-> Sharpe(frame.net_pnl),
     max_drawdown |-> MaxDrawdown(frame.cumulative_pnl),
     total_trades |-> SumSkipNa(frame.trades)]

(* ------------------------------ the call ------------------------------- *)

Init ==
    /\ df \in InputFrames
    /\ \E a \in Arguments :
          /\ lookback = a[1]
          /\ entry_z = a[2]
          /\ cost_per_trade = a[3]
    /\ pc = "start"
    /\ exc = "none"
    /\ adf = "none"
    /\ hurst = "none"
    /\ data = << >>
    /\ summary = << >>

(* Lines 134-135: no argument is examined before the frame is indexed and
   sorted. *)
PrepareData ==
    /\ pc = "start"
    /\ data' = SortIndex(df)
    /\ pc' = "validate"
    /\ UNCHANGED <<df, lookback, entry_z, cost_per_trade, exc, adf, hurst, summary>>

(* Lines 143-159: an exception of adfuller leaves the function; otherwise
   the p-value and the Hurst exponent only choose what is printed. *)
StatisticalValidation ==
    /\ pc = "validate"
    /\ \/ /\ AdfullerTooShort(data.Spread) \/ IsConstant(data.Spread)
          /\ pc' = "raised"
          /\ exc' = "ValueError"
          /\ UNCHANGED <<adf, hurst>>
       \/ /\ ~(AdfullerTooShort(data.Spread) \/ IsConstant(data.Spread))
          /\ adf' \in {"stationary", "non_stationary"}
          /\ \E below \in HurstBelowHalf(data.Spread) :
                hurst' = [finite |-> HurstFinite(data.Spread), mean_reverting |-> below]
          /\ pc' = "signal"
          /\ exc' = exc
    /\ UNCHANGED <<df, lookback, entry_z, cost_per_trade, data, summary>>

(* Lines 166-192. *)
SignalGeneration ==
    /\ pc = "signal"
    /\ data' = data @@ SignalColumns(data.Spread, lookback, entry_z)
    /\ pc' = "pnl"
    /\ UNCHANGED <<df, lookback, entry_z, cost_per_trade, exc, adf, hurst, summary>>

(* Lines 199-214. *)
PnLAndCosts ==
    /\ pc = "pnl"
    /\ data' = data @@ PnlColumns(data.Spread, data.position, cost_per_trade)
    /\ pc' = "report"
    /\ UNCHANGED <<df, lookback, entry_z, cost_per_trade, exc, adf, hurst, summary>>

(* Lines 221-238; iloc[-1] of an empty column raises IndexError. *)
PerformanceReporting ==
    /\ pc = "report"
    /\ IF Len(data.Spread) = 0
       THEN pc' = "raised" /\ exc' = "IndexError" /\ summary' = summary
       ELSE pc' = "plot" /\ exc' = exc /\ summary' = Summary(data)
    /\ UNCHANGED <<df, lookback, entry_z, cost_per_trade, adf, hurst, data>>

(* Lines 243-265: the figure reads the columns; the frame is returned. *)
PlotAndReturn ==
    /\ pc = "plot"
    /\ pc' = "done"
    /\ UNCHANGED <<df, lookback, entry_z, cost_per_trade, exc, adf, hurst, data, summary>>

Next ==
    \/ PrepareData
    \/ StatisticalValidation
    \/ SignalGeneration
    \/ PnLAndCosts
    \/ PerformanceReporting
    \/ PlotAndReturn

Spec == Init /\ [][Next]_vars

(* ------------------------------ the claims ----------------------------- *)

N == Len(df)

HasSignals == "position" \in DOMAIN data

HasPnl == "cumulative_pnl" \in DOMAIN data

HasSummary == summary # << >>

TimeOrdered(frame) == \A i, j \in 1..Len(frame) : i < j => frame[i].Date < frame[j].Date

(* The preconditions the specification gives for a run. *)
Admissible ==
    /\ lookback >= 2
    /\ entry_z.num > 0
    /\ cost_per_trade >= 0
    /\ Len(df) > 0
    /\ TimeOrdered(df)

(* C1: a call whose arguments break a precondition (lookback < 2,
   entry_z <= 0, cost_per_trade < 0, an empty or unordered series) ends in
   InvalidParameterError, computes no rolling statistic, signal, position or
   PnL, and returns no frame and no summary. *)
C1_FailFast ==
    ~Admissible =>
        /\ ~HasSignals
        /\ ~HasPnl
        /\ ~HasSummary
        /\ pc # "done"
        /\ pc = "raised" => exc = "InvalidParameterError"

(* C2: no lookahead. On every row after the first the gross PnL is the
   position of the row before times the price change of the row; and the
   positions and gross PnL of rows 1..i are those of the run on the series
   cut after row i, so they are a function of the rows 1..i alone: two
   series that agree on rows 1..i have the same cut, hence equal positions
   and gross PnL on rows 1..i whatever follows. *)
C2_NoLookahead ==
    HasPnl =>
        /\ \A i \in 2..N :
              data.gross_pnl[i] =
                  Num(data.position[i-1].v * (data.Spread[i] - data.Spread[i-1]))
        /\ \A i \in 1..N :
              \A sig \in {SignalColumns(SubSeq(data.Spread, 1, i), lookback, entry_z)} :
                  \A pnl \in {PnlColumns(SubSeq(data.Spread, 1, i), sig.position,
                                          cost_per_trade)} :
                      \A k \in 1..i :
                          /\ data.position[k] = sig.position[k]
                          /\ data.gross_pnl[k] = pnl.gross_pnl[k]

(* A frame whose last row changes the position that earlier rows earned
   a non-zero gross PnL with. *)
C2_Witness ==
    /\ Admissible
    /\ HasPnl
    /\ N >= 4
    /\ \E i \in 2..(N - 1) : data.gross_pnl[i].def /\ data.gross_pnl[i].v # 0
    /\ data.position[N] # data.position[N - 1]

LastSignal(i) == {j \in 1..i : data.signal[j].def /\ \A k \in (j + 1)..i : ~data.signal[k].def}

(* C3: the held position is -1, 0 or +1 on every row; it is the raw signal
   of the latest row at or before it that has one, 0 when no such row
   exists, and on a row without a raw signal it is the position of the row
   before. *)
C3_HoldStateMachine ==
    HasSignals =>
        \A i \in 1..N :
            /\ data.position[i].def
            /\ data.position[i].v \in {-1, 0, 1}
            /\ LastSignal(i) = {} => data.position[i].v = 0
            /\ \A j \in LastSignal(i) : data.position[i] = data.signal[j]
            /\ (i > 1 /\ ~data.signal[i].def) => data.position[i] = data.position[i-1]

(* A Long or Short position held over a row without a raw signal. *)
C3_Witness ==
    /\ Admissible
    /\ HasSignals
    /\ \E i \in 2..N :
          /\ ~data.signal[i].def
          /\ data.position[i].v # 0
          /\ \E j \in 1..(i - 1) : data.signal[j] = data.position[i]

AbsInt(x) == IF x < 0 THEN -x ELSE x

(* C4: on every row after the first, trades is |position - previous
   position|, one of 0, 1, 2, and the cost is trades * cost_per_trade; trades
   is 2 exactly on a direct flip between Long and Short, 1 exactly on a move
   between Flat and Long or Short, 0 exactly when the position is kept. *)
C4_TradesAndCosts ==
    HasPnl =>
        \A i \in 2..N :
            LET now == data.position[i].v
                before == data.position[i-1].v
            IN  /\ data.trades[i] = Num(AbsInt(now - before))
                /\ data.trades[i].v \in {0, 1, 2}
                /\ data.costs[i] = Num(data.trades[i].v * cost_per_trade)
                /\ data.trades[i].v = 2 <=> {now, before} = {-1, 1}
                /\ data.trades[i].v = 1 <=> (now # before /\ 0 \in {now, before})
                /\ data.trades[i].v = 0 <=> now = before

(* A direct flip and a move from or to Flat in one frame, at a cost. *)
C4_Witness ==
    /\ Admissible
    /\ HasPnl
    /\ cost_per_trade # 0
    /\ \E i \in 2..N : data.trades[i].v = 2
    /\ \E i \in 2..N : data.trades[i].v = 1

(* C5 as stated: cumulative_pnl of the first row is its net_pnl, and on
   every later row, the second included, cumulative_pnl is the
   cumulative_pnl of the row before plus the net_pnl of the row, with
   net_pnl = gross_pnl - cost. *)
C5_AsStated ==
    (Admissible /\ HasPnl) =>
        /\ \A i \in 1..N : data.net_pnl[i] = Sub(data.gross_pnl[i], data.costs[i])
        /\ N >= 1 => data.cumulative_pnl[1] = data.net_pnl[1]
        /\ \A i \in 2..N :
              data.cumulative_pnl[i] = Add(data.cumulative_pnl[i-1], data.net_pnl[i])

(* C5 amended: net_pnl = gross_pnl - cost on every row; on the first row
   net_pnl and cumulative_pnl are both undefined; on the second row
   cumulative_pnl is the net_pnl of that row; from the third row on
   cumulative_pnl is the cumulative_pnl of the row before plus the net_pnl
   of the row. *)
C5_CumulativeFromSecondRow ==
    HasPnl =>
        /\ \A i \in 1..N : data.net_pnl[i] = Sub(data.gross_pnl[i], data.costs[i])
        /\ N >= 1 => ~data.net_pnl[1].def /\ ~data.cumulative_pnl[1].def
        /\ N >= 2 => data.cumulative_pnl[2].def /\ data.cumulative_pnl[2] = data.net_pnl[2]
        /\ \A i \in 3..N :
              /\ data.cumulative_pnl[i].def
              /\ data.cumulative_pnl[i] = Add(data.cumulative_pnl[i-1], data.net_pnl[i])

(* A frame whose second and third rows both have a non-zero net PnL. *)
C5_Witness ==
    /\ Admissible
    /\ HasPnl
    /\ N >= 3
    /\ data.net_pnl[2].v # 0
    /\ data.net_pnl[3].v # 0
    /\ data.cumulative_pnl[3].v = data.net_pnl[2].v + data.net_pnl[3].v

(* C6: the validation never gates the engine: a call whose arguments meet
   the preconditions is not ended by the validation, whatever the series
   (too short for the stationarity test included); it reaches the signal and
   PnL stage and returns its frame. *)
C6_ValidatorNeverGates ==
    Admissible => pc # "raised"

NonDecreasing(col) ==
    \A i, j \in 1..Len(col) : (i < j /\ col[i].def /\ col[j].def) => col[i].v <= col[j].v

(* C7: every admissible series, a single point included, gives a completed
   run whose max_drawdown is <= 0, and 0 only if cumulative_pnl never
   decreases. *)
C7_DrawdownSign ==
    (Admissible /\ pc \in {"raised", "done"}) =>
        /\ pc = "done"
        /\ summary.max_drawdown.def
        /\ summary.max_drawdown.v <= 0
        /\ summary.max_drawdown.v = 0 => NonDecreasing(data.cumulative_pnl)

(* C8: on every row before row lookback the rolling mean, the rolling std
   and the z-score are undefined, no raw signal is raised and the position
   is 0, so no trade and no cost occurs there; with a lookback above the
   length of the series the position is 0 on every row and total_trades
   is 0. *)
C8_WarmUp ==
    /\ HasSignals =>
          \A i \in 1..N :
              i < lookback =>
                  /\ ~data.mean[i].def
                  /\ ~data.std[i].def
                  /\ ~data.z_score[i].def
                  /\ ~data.signal[i].def
                  /\ data.position[i] = Num(0)
    /\ HasPnl =>
          \A i \in 1..N :
              i < lookback =>
                  /\ data.trades[i].def => data.trades[i].v = 0
                  /\ data.costs[i].def => data.costs[i].v = 0
    /\ (HasSignals /\ lookback > N) => \A i \in 1..N : data.position[i] = Num(0)
    /\ (HasSummary /\ lookback > N) => summary.total_trades = 0

(* A completed run whose lookback is above the length of its series. *)
C8_Witness ==
    /\ Admissible
    /\ pc = "done"
    /\ lookback > N
    /\ summary.total_trades = 0

(* An entry condition and a zero crossing on the same row. *)
Coincident(i) ==
    /\ i > 1
    /\ data.z_score[i].def
    /\ data.z_score[i-1].def
    /\ data.z_score[i].sgn * data.z_score[i-1].sgn < 0
    /\ Greater(data.z_score[i], entry_z) \/ LessNeg(data.z_score[i], entry_z)

(* C9 as stated: on a row where z is beyond the entry threshold and has
   crossed zero from the row before, the raw signal is the entry (-1 above
   the threshold, +1 below its negative), and so is the position. *)
C9_AsStated ==
    (Admissible /\ HasSignals) =>
        \A i \in 1..N :
            Coincident(i) =>
                LET entry == IF Greater(data.z_score[i], entry_z) THEN -1 ELSE 1
                IN  data.signal[i] = Num(entry) /\ data.position[i] = Num(entry)

(* C9 amended: on such a row the raw signal is the exit signal 0, which
   overwrites the entry, and the position is 0. *)
C9_ExitBeatsEntry ==
    HasSignals =>
        \A i \in 1..N :
            Coincident(i) => data.signal[i] = Num(0) /\ data.position[i] = Num(0)

(* A coincident row that leaves a Long or Short position. *)
C9_Witness ==
    /\ Admissible
    /\ HasSignals
    /\ \E i \in 2..N : Coincident(i) /\ data.position[i-1].v # 0

Held(i) == data.position[i] = (IF i > 1 THEN data.position[i-1] ELSE Num(0))

ZeroStd(i) == data.std[i].def /\ data.std[i].sq_num = 0

ZeroZ(i) == data.z_score[i].def /\ data.z_score[i].sgn = 0

Exit(i) == data.signal[i] = Num(0)

ExitOnlyOnCrossing(i) ==
    Exit(i) =>
        /\ i > 1
        /\ data.z_score[i].def
        /\ data.z_score[i-1].def
        /\ data.z_score[i].sgn * data.z_score[i-1].sgn < 0

ZeroStdRaisesNothing(i) ==
    ZeroStd(i) =>
        /\ ~data.z_score[i].def
        /\ ~data.signal[i].def
        /\ i < N => ~Exit(i + 1)
        /\ Held(i)

(* C10 as stated: an exit is raised only on a row where z and the z of the
   row before are defined with signs of negative product; a zero rolling std
   leaves z undefined and raises no signal on its row and no exit on the
   next; a z of exactly 0 on the row or on the row before raises no exit;
   and in all these cases the position of the row is that of the row
   before. *)
C10_AsStated ==
    (Admissible /\ HasSignals) =>
        \A i \in 1..N :
            /\ ExitOnlyOnCrossing(i)
            /\ ZeroStdRaisesNothing(i)
            /\ ZeroZ(i) => ~Exit(i) /\ Held(i)
            /\ (i > 1 /\ ZeroZ(i - 1)) => ~Exit(i) /\ Held(i)

(* C10 amended: as stated, except that after a z of exactly 0 on the row
   before, the position of the row is that of the row before unless an
   entry is raised on the row, and then it is the entry. *)
C10_ExitDetection ==
    HasSignals =>
        \A i \in 1..N :
            /\ ExitOnlyOnCrossing(i)
            /\ ZeroStdRaisesNothing(i)
            /\ ZeroZ(i) => ~Exit(i) /\ Held(i)
            /\ (i > 1 /\ ZeroZ(i - 1)) =>
                  /\ ~Exit(i)
                  /\ IF Greater(data.z_score[i], entry_z) THEN data.position[i] = Num(-1)
                     ELSE IF LessNeg(data.z_score[i], entry_z) THEN data.position[i] = Num(1)
                     ELSE Held(i)

(* A Long or Short position kept while z passes to the other side of zero
   through a row where it is 0 or undefined. *)
C10_Witness ==
    /\ Admissible
    /\ HasSignals
    /\ \E i \in 3..N :
          /\ data.position[i].v # 0
          /\ data.position[i] = data.position[i-2]
          /\ data.position[i] = data.position[i-1]
          /\ ZeroZ(i - 1) \/ ZeroStd(i - 1)
          /\ data.z_score[i].def
          /\ data.z_score[i-2].def
          /\ data.z_score[i].sgn * data.z_score[i-2].sgn < 0

====
